---- MODULE Spec2Model ----
(***************************************************************************)
(* Model of pkg/security/secl/ast/dot/dot.go: the Marshaler that writes    *)
(* the AST of a SECL rule to an io.Writer in DOT format.                   *)
(*                                                                         *)
(* The AST is a nested record, one record per ast.* struct, with the       *)
(* fields dot.go reads.  A nil pointer is Nil.  A pointer to a string or   *)
(* an int (Op, Ident, Number, String) is a record [addr, val]: addr is     *)
(* what %p prints, val is what the pointer dereferences to.                *)
(*                                                                         *)
(* The recursion of writeNode is an explicit stack of frames, and every    *)
(* attempt to write to the sink is one step.  The sink accepts or rejects  *)
(* each write; a rejected write leaves nothing in the sink.                *)
(***************************************************************************)
EXTENDS Integers, Sequences, FiniteSets, TLC

VARIABLES
    ast,       \* the *ast.Rule handed to MarshalRule (never mutated)
    call,      \* which MarshalRule call is running or last ran (1 or 2)
    pc,        \* "idle": not started, "run": inside writeNode, "done": returned
    stack,     \* the writeNode activations, innermost last
    sinks,     \* sinks[c]: what the io.Writer of call c accepted, in order
    attempts,  \* attempts[c]: number of io.WriteString calls made by call c
    err        \* err[c]: what MarshalRule call c returned ("none" while running)

vars == <<ast, call, pc, stack, sinks, attempts, err>>

(***************************************************************************)
(* Bounds of the enumerated inputs.                                        *)
(***************************************************************************)
MaxChain == 2     \* longest Expression chain (Expression.Next)
MaxLen == 2       \* longest Array.Strings / Array.Numbers
MaxDepth == 1     \* deepest nesting of Primary.SubExpression

(***************************************************************************)
(* Text formatting: strconv.Itoa / %d and %p.                              *)
(***************************************************************************)
Digits == <<"0", "1", "2", "3", "4", "5", "6", "7", "8", "9",
            "a", "b", "c", "d", "e", "f">>

RECURSIVE FormatUint(_, _)
FormatUint(n, base) ==
    IF n < base THEN Digits[n + 1]
    ELSE FormatUint(n \div base, base) \o Digits[(n % base) + 1]

\* strconv.Itoa, and fmt's %d verb on an int
Itoa(n) == IF n < 0 THEN "-" \o FormatUint(-n, 10) ELSE FormatUint(n, 10)

\* fmt's %p verb on a pointer: 0x and the address in lower-case hexadecimal
FmtPointer(a) == "0x" \o FormatUint(a, 16)

\* strings.Join(elems, sep)
RECURSIVE Join(_, _)
Join(elems, sep) ==
    IF Len(elems) = 0 THEN ""
    ELSE IF Len(elems) = 1 THEN elems[1]
    ELSE elems[1] \o sep \o Join(Tail(elems), sep)

(***************************************************************************)
(* The AST.                                                                *)
(***************************************************************************)
Nil == [kind |-> "nil"]

Ptr(a, v) == [addr |-> a, val |-> v]

\* type node struct { id, label string } and newNode
newNode(id, label) == [kind |-> "node", id |-> id, label |-> label]

(***************************************************************************)
(* getID, getLabel, getChildren.                                           *)
(***************************************************************************)
AstKinds == {"Rule", "Expression", "Comparison", "ScalarComparison",
             "ArrayComparison", "Array", "BooleanExpression", "BitOperation",
             "Unary", "Primary"}

\* fmt.Sprintf("<Kind>%d", n.Pos.Offset)
PosID(n) == n.kind \o Itoa(n.Offset)

\* func (d *Marshaler) getID(n interface{}) (string, error)
getID(n) ==
    IF n.kind \in AstKinds THEN [id |-> PosID(n), err |-> "nil"]
    ELSE IF n.kind = "node" THEN [id |-> n.id, err |-> "nil"]
    ELSE [id |-> "", err |-> "unsupported"]

\* reflect.TypeOf(n).String() for n a *ast.X is "*ast.X"; kept as its
\* segments between dots
TypeString(n) == <<"*ast", n.kind>>

\* strings.SplitN(s, ".", 2) on the segments of s
SplitN2(segs) ==
    IF Len(segs) <= 1 THEN segs ELSE <<segs[1], Join(Tail(segs), ".")>>

\* func (d *Marshaler) getLabel(n interface{}) string
getLabel(n) ==
    IF n.kind = "node" THEN n.label
    ELSE LET split == SplitN2(TypeString(n)) IN split[Len(split)]

\* an operator node identified by its symbol, not by its instance
OpNode_bySymbol(op) == newNode("Op" \o op.val, "Op\\n" \o op.val)

\* an operator node identified by a counter that outlives the call
OpNode_counted(op) ==
    newNode("Op" \o Itoa(attempts[1] + attempts[2]), "Op\\n" \o op.val)

\* newNode(fmt.Sprintf("Op%p", n.Op), fmt.Sprintf("Op\\n%s", *n.Op))
OpNode(op) == newNode("Op" \o FmtPointer(op.addr), "Op\\n" \o op.val)

\* the loop over n.Numbers without its i != 0 test
RECURSIVE NumbersLabel_leadingSep(_)
NumbersLabel_leadingSep(nums) ==
    IF Len(nums) = 0 THEN ""
    ELSE NumbersLabel_leadingSep(SubSeq(nums, 1, Len(nums) - 1))
             \o ", " \o Itoa(nums[Len(nums)])

\* the loop over n.Numbers in the *ast.Array case
RECURSIVE NumbersLabel(_)
NumbersLabel(nums) ==
    IF Len(nums) = 0 THEN ""
    ELSE IF Len(nums) = 1 THEN Itoa(nums[1])
    ELSE NumbersLabel(SubSeq(nums, 1, Len(nums) - 1))
             \o ", " \o Itoa(nums[Len(nums)])

\* the *ast.Array case of getChildren
ArrayNode(n) ==
    IF Len(n.Strings) > 0
    THEN newNode("Array" \o FmtPointer(n.addr), Join(n.Strings, ","))
    ELSE newNode("Array" \o FmtPointer(n.addr), NumbersLabel(n.Numbers))

Opt(p) == IF p # Nil THEN <<p>> ELSE <<>>

OptOp(op) == IF op # Nil THEN <<OpNode(op)>> ELSE <<>>

\* the *ast.Primary case without its n.Number alternative
PrimaryChildren_noNumber(n) ==
    IF n.Ident # Nil
    THEN [children |-> <<newNode("Ident" \o FmtPointer(n.Ident.addr),
                                 "Ident\\n" \o n.Ident.val)>>,
          err |-> "nil"]
    ELSE IF n.String # Nil
    THEN [children |-> <<newNode("String" \o FmtPointer(n.String.addr),
                                 "String\\n" \o n.String.val)>>,
          err |-> "nil"]
    ELSE IF n.SubExpression # Nil
    THEN [children |-> <<n.SubExpression>>, err |-> "nil"]
    ELSE [children |-> <<>>, err |-> "empty"]

\* the *ast.Primary case returning no child and no error for an empty Primary
PrimaryChildren_unchecked(n) ==
    IF n.Ident # Nil
    THEN [children |-> <<newNode("Ident" \o FmtPointer(n.Ident.addr),
                                 "Ident\\n" \o n.Ident.val)>>,
          err |-> "nil"]
    ELSE IF n.Number # Nil
    THEN [children |-> <<newNode("Number" \o FmtPointer(n.Number.addr),
                                 "Number\\n" \o Itoa(n.Number.val))>>,
          err |-> "nil"]
    ELSE IF n.String # Nil
    THEN [children |-> <<newNode("String" \o FmtPointer(n.String.addr),
                                 "String\\n" \o n.String.val)>>,
          err |-> "nil"]
    ELSE IF n.SubExpression # Nil
    THEN [children |-> <<n.SubExpression>>, err |-> "nil"]
    ELSE [children |-> <<>>, err |-> "nil"]

\* the *ast.Primary case of getChildren
PrimaryChildren(n) ==
    IF n.Ident # Nil
    THEN [children |-> <<newNode("Ident" \o FmtPointer(n.Ident.addr),
                                 "Ident\\n" \o n.Ident.val)>>,
          err |-> "nil"]
    ELSE IF n.Number # Nil
    THEN [children |-> <<newNode("Number" \o FmtPointer(n.Number.addr),
                                 "Number\\n" \o Itoa(n.Number.val))>>,
          err |-> "nil"]
    ELSE IF n.String # Nil
    THEN [children |-> <<newNode("String" \o FmtPointer(n.String.addr),
                                 "String\\n" \o n.String.val)>>,
          err |-> "nil"]
    ELSE IF n.SubExpression # Nil
    THEN [children |-> <<n.SubExpression>>, err |-> "nil"]
    ELSE [children |-> <<>>, err |-> "empty"]

\* the *ast.Expression case appending Next before the operator
ExpressionChildren_nextFirst(n) ==
    <<n.Comparison>> \o Opt(n.Next) \o OptOp(n.Op)

\* the *ast.Expression case of getChildren
ExpressionChildren(n) == <<n.Comparison>> \o OptOp(n.Op) \o Opt(n.Next)

\* the *ast.Unary case of getChildren
UnaryChildren(n) == OptOp(n.Op) \o Opt(n.Unary) \o Opt(n.Primary)

\* func (d *Marshaler) getChildren(n interface{}) ([]interface{}, error)
getChildren(n) ==
    CASE n.kind = "Rule" ->
           [children |-> <<n.BooleanExpression>>, err |-> "nil"]
      [] n.kind = "Expression" ->
           [children |-> ExpressionChildren(n), err |-> "nil"]
      [] n.kind = "BooleanExpression" ->
           [children |-> <<n.Expression>>, err |-> "nil"]
      [] n.kind = "Comparison" ->
           [children |-> <<n.BitOperation>> \o Opt(n.ArrayComparison)
                             \o Opt(n.ScalarComparison),
            err |-> "nil"]
      [] n.kind = "ArrayComparison" ->
           [children |-> <<OpNode(n.Op), n.Array>>, err |-> "nil"]
      [] n.kind = "ScalarComparison" ->
           [children |-> <<OpNode(n.Op), n.Next>>, err |-> "nil"]
      [] n.kind = "Array" ->
           [children |-> <<ArrayNode(n)>>, err |-> "nil"]
      [] n.kind = "BitOperation" ->
           [children |-> <<n.Unary>> \o OptOp(n.Op) \o Opt(n.Next),
            err |-> "nil"]
      [] n.kind = "Unary" ->
           [children |-> UnaryChildren(n), err |-> "nil"]
      [] n.kind = "Primary" -> PrimaryChildren(n)
      [] n.kind = "node" -> [children |-> <<>>, err |-> "nil"]
      [] OTHER -> [children |-> <<>>, err |-> "unsupported"]

(***************************************************************************)
(* The inputs: rule ASTs as the parser builds them.  o is the offset of    *)
(* the node's first token, a the address its values are allocated from,    *)
(* and m is 1 when Pos is set as the lexer sets it and 0 for an AST built  *)
(* by hand with every Pos left zero.  Addresses of distinct values are     *)
(* always distinct.  The pointers dot.go dereferences without a nil test   *)
(* (the children it appends unconditionally, the Op of a ScalarComparison  *)
(* or ArrayComparison) are never nil in these rules.                       *)
(***************************************************************************)
RECURSIVE MkPrimary(_, _, _, _, _)

\* ast.Unary: un is TRUE for an operator wrapping a nested Unary
MkUnary(o, a, un, alt, d, m) ==
    IF un
    THEN [kind |-> "Unary", Offset |-> m * o, Op |-> Ptr(a, "!"),
          Unary |-> [kind |-> "Unary", Offset |-> m * (o + 1), Op |-> Nil,
                     Unary |-> Nil,
                     Primary |-> MkPrimary(o + 1, a + 8, alt, d, m)],
          Primary |-> Nil]
    ELSE [kind |-> "Unary", Offset |-> m * o, Op |-> Nil, Unary |-> Nil,
          Primary |-> MkPrimary(o, a + 8, alt, d, m)]

\* ast.BitOperation: bit is TRUE for `<unary> & 2`
MkBitOperation(o, a, un, alt, d, bit, m) ==
    [kind |-> "BitOperation", Offset |-> m * o,
     Unary |-> MkUnary(o, a, un, alt, d, m),
     Op |-> IF bit THEN Ptr(a + 4, "&") ELSE Nil,
     Next |-> IF bit
              THEN [kind |-> "BitOperation", Offset |-> m * (o + 8),
                    Unary |-> [kind |-> "Unary", Offset |-> m * (o + 8),
                               Op |-> Nil, Unary |-> Nil,
                               Primary |-> [kind |-> "Primary",
                                            Offset |-> m * (o + 8),
                                            Ident |-> Nil,
                                            Number |-> Ptr(a + 24, 2),
                                            String |-> Nil,
                                            SubExpression |-> Nil]],
                    Op |-> Nil, Next |-> Nil]
              ELSE Nil]

\* ast.Primary: alt names the populated alternative, "Empty" for none;
\* d is the nesting depth left for a parenthesized sub-expression
MkPrimary(o, a, alt, d, m) ==
    [kind |-> "Primary", Offset |-> m * o,
     Ident |-> IF alt = "Ident" THEN Ptr(a, "a") ELSE Nil,
     Number |-> IF alt = "Number" THEN Ptr(a, 1) ELSE Nil,
     String |-> IF alt = "String" THEN Ptr(a, "x") ELSE Nil,
     SubExpression |->
        IF alt = "Sub"
        THEN [kind |-> "Expression", Offset |-> m * (o + 1),
              Comparison |->
                 [kind |-> "Comparison", Offset |-> m * (o + 1),
                  BitOperation |->
                     MkBitOperation(o + 1, a, FALSE,
                                    IF d > 1 THEN "Sub" ELSE "Ident",
                                    d - 1, FALSE, m),
                  ArrayComparison |-> Nil, ScalarComparison |-> Nil],
              Op |-> Nil, Next |-> Nil]
        ELSE Nil]

\* ast.Comparison with its optional ArrayComparison or ScalarComparison
MkComparison(o, a, sh, m) ==
    [kind |-> "Comparison", Offset |-> m * o,
     BitOperation |-> MkBitOperation(o, a, sh.un, sh.left, sh.d, sh.bit, m),
     ArrayComparison |->
        IF sh.cmp = "array"
        THEN [kind |-> "ArrayComparison", Offset |-> m * (o + 12),
              Op |-> Ptr(a + 64, "in"),
              Array |-> [kind |-> "Array", Offset |-> m * (o + 16),
                         addr |-> a + 72,
                         Strings |-> sh.strs, Numbers |-> sh.nums]]
        ELSE Nil,
     ScalarComparison |->
        IF sh.cmp = "scalar"
        THEN [kind |-> "ScalarComparison", Offset |-> m * (o + 12),
              Op |-> Ptr(a + 64, "=="),
              Next |-> MkBitOperation(o + 16, a + 32, FALSE, sh.right,
                                      sh.d, FALSE, m)]
        ELSE Nil]

Shape(left, un, bit, cmp, right, d, strs, nums) ==
    [left |-> left, un |-> un, bit |-> bit, cmp |-> cmp, right |-> right,
     d |-> d, strs |-> strs, nums |-> nums]

\* the comparison `a == 1`
EqShape == Shape("Ident", FALSE, FALSE, "scalar", "Number", 0, <<>>, <<>>)

\* ast.Expression: element k of a chain of n, joined by `&&`; the first
\* n-1 elements are `a == 1`, the last has shape sh
RECURSIVE MkExpression(_, _, _, _)
MkExpression(k, n, sh, m) ==
    [kind |-> "Expression", Offset |-> m * 32 * (k - 1),
     Comparison |-> MkComparison(32 * (k - 1), 128 * k,
                                 IF k = n THEN sh ELSE EqShape, m),
     Op |-> IF k < n THEN Ptr(128 * k + 80, "&&") ELSE Nil,
     Next |-> IF k < n THEN MkExpression(k + 1, n, sh, m) ELSE Nil]

\* ast.Rule
MkRule(n, sh, m) ==
    [kind |-> "Rule", Offset |-> 0,
     BooleanExpression |-> [kind |-> "BooleanExpression", Offset |-> 0,
                            Expression |-> MkExpression(1, n, sh, m)]]

StrPool == <<"x", "y", "z", "w">>

Strs(n) == [i \in 1..n |-> StrPool[i]]

Nums(neg, k) == [i \in 1..k |-> IF neg THEN -15 * i ELSE i]

Alts == {"Ident", "Number", "String", "Empty"}

Shapes ==
    {Shape(l, FALSE, FALSE, "none", "Ident", 0, <<>>, <<>>) : l \in Alts}
    \cup {Shape("Sub", FALSE, FALSE, "none", "Ident", d, <<>>, <<>>) :
             d \in 1..MaxDepth}
    \cup {Shape(l, FALSE, FALSE, "scalar", r, 1, <<>>, <<>>) :
             l \in {"Ident", "Empty"}, r \in Alts \cup {"Sub"}}
    \cup {Shape("Ident", FALSE, FALSE, "array", "Ident", 0, Strs(n),
                Nums(neg, k)) :
             n \in 0..MaxLen, k \in 0..MaxLen, neg \in BOOLEAN}
    \cup {Shape(l, TRUE, bit, "none", "Ident", 0, <<>>, <<>>) :
             l \in {"Ident", "Empty"}, bit \in BOOLEAN}
    \cup {Shape("Number", FALSE, TRUE, "scalar", "Empty", 0, <<>>, <<>>)}

Rules == {MkRule(n, sh, m) : n \in 1..MaxChain, sh \in Shapes, m \in {0, 1}}

(***************************************************************************)
(* The sink and the writes.  A write is kept with the pieces it was        *)
(* concatenated from: s is the text handed to io.WriteString.              *)
(***************************************************************************)
Header ==
    [s |-> "digraph {\n", t |-> "header", id |-> "", label |-> "",
     to |-> "", path |-> <<>>]

Footer ==
    [s |-> "}\n", t |-> "footer", id |-> "", label |-> "", to |-> "",
     path |-> <<>>]

\* id + "[label=\"" + d.getLabel(node) + "\"]\n"
Decl(n, id, path) ==
    [s |-> id \o "[label=\"" \o getLabel(n) \o "\"]\n", t |-> "node",
     id |-> id, label |-> getLabel(n), to |-> "", path |-> path]

\* parentID + " -> " + childID + "\n"; path is the child's place in the tree
Edge(parentID, childID, path) ==
    [s |-> parentID \o " -> " \o childID \o "\n", t |-> "edge",
     id |-> parentID, label |-> "", to |-> childID, path |-> path]

\* func (d *Marshaler) writeString(s string) error, on a sink that accepts
\* the write (ok) or rejects it
writeString(w, ok) ==
    /\ attempts' = [attempts EXCEPT ![call] = @ + 1]
    /\ sinks' = IF ok THEN [sinks EXCEPT ![call] = Append(@, w)] ELSE sinks

\* MarshalRule returns e
Return(e) ==
    /\ pc' = "done"
    /\ stack' = <<>>
    /\ err' = [err EXCEPT ![call] = e]

\* a writeNode activation: i = 0 until the node is declared, then the index
\* of the next child in the range loop
Frame(n, path) == [node |-> n, path |-> path, children |-> <<>>, i |-> 0]

Top == stack[Len(stack)]

Callers == SubSeq(stack, 1, Len(stack) - 1)

(***************************************************************************)
(* The steps.                                                              *)
(***************************************************************************)
\* MarshalRule calling writeNode(r) instead of writeNode(r.BooleanExpression)
MarshalRule_fromRule ==
    /\ pc = "idle"
    /\ \E ok \in BOOLEAN :
          /\ writeString(Header, ok)
          /\ IF ok
             THEN /\ pc' = "run"
                  /\ stack' = <<Frame(ast, <<>>)>>
                  /\ UNCHANGED err
             ELSE Return("write")
    /\ UNCHANGED <<ast, call>>

\* MarshalRule up to its call of writeNode(r.BooleanExpression)
MarshalRule ==
    /\ pc = "idle"
    /\ \E ok \in BOOLEAN :
          /\ writeString(Header, ok)
          /\ IF ok
             THEN /\ pc' = "run"
                  /\ stack' = <<Frame(ast.BooleanExpression, <<>>)>>
                  /\ UNCHANGED err
             ELSE Return("write")
    /\ UNCHANGED <<ast, call>>

\* writeNode calling getChildren before it writes the declaration
writeNode_childrenFirst ==
    /\ pc = "run" /\ stack # <<>> /\ Top.i = 0
    /\ LET r == getID(Top.node)
           ch == getChildren(Top.node)
       IN IF r.err # "nil"
          THEN Return(r.err) /\ UNCHANGED <<sinks, attempts>>
          ELSE IF ch.err # "nil"
          THEN Return(ch.err) /\ UNCHANGED <<sinks, attempts>>
          ELSE \E ok \in BOOLEAN :
                 /\ writeString(Decl(Top.node, r.id, Top.path), ok)
                 /\ IF ~ok
                    THEN Return("write")
                    ELSE /\ stack' = Append(Callers,
                                       [Top EXCEPT !.children = ch.children,
                                                   !.i = 1])
                         /\ UNCHANGED <<pc, err>>
    /\ UNCHANGED <<ast, call>>

\* writeNode from its entry to the head of its range loop
writeNode ==
    /\ pc = "run" /\ stack # <<>> /\ Top.i = 0
    /\ LET r == getID(Top.node) IN
         IF r.err # "nil"
         THEN Return(r.err) /\ UNCHANGED <<sinks, attempts>>
         ELSE \E ok \in BOOLEAN :
                /\ writeString(Decl(Top.node, r.id, Top.path), ok)
                /\ IF ~ok
                   THEN Return("write")
                   ELSE LET ch == getChildren(Top.node) IN
                          IF ch.err # "nil"
                          THEN Return(ch.err)
                          ELSE /\ stack' = Append(Callers,
                                             [Top EXCEPT
                                                !.children = ch.children,
                                                !.i = 1])
                               /\ UNCHANGED <<pc, err>>
    /\ UNCHANGED <<ast, call>>

\* the range loop dropping the error of writeEdge
writeEdge_ignoringError ==
    /\ pc = "run" /\ stack # <<>>
    /\ Top.i >= 1 /\ Top.i <= Len(Top.children)
    /\ LET child == Top.children[Top.i]
           p == getID(Top.node)
           c == getID(child)
       IN \E ok \in BOOLEAN :
             /\ writeString(Edge(p.id, c.id, Append(Top.path, Top.i)), ok)
             /\ stack' = Append(Callers, [Top EXCEPT !.i = @ + 1])
                           \o <<Frame(child, Append(Top.path, Top.i))>>
             /\ UNCHANGED <<pc, err>>
    /\ UNCHANGED <<ast, call>>

\* one turn of the range loop: writeEdge(node, child), then the call of
\* writeNode(child)
writeEdge ==
    /\ pc = "run" /\ stack # <<>>
    /\ Top.i >= 1 /\ Top.i <= Len(Top.children)
    /\ LET child == Top.children[Top.i]
           p == getID(Top.node)
           c == getID(child)
       IN IF p.err # "nil"
          THEN Return(p.err) /\ UNCHANGED <<sinks, attempts>>
          ELSE IF c.err # "nil"
          THEN Return(c.err) /\ UNCHANGED <<sinks, attempts>>
          ELSE \E ok \in BOOLEAN :
                 /\ writeString(Edge(p.id, c.id, Append(Top.path, Top.i)), ok)
                 /\ IF ~ok
                    THEN Return("write")
                    ELSE /\ stack' = Append(Callers, [Top EXCEPT !.i = @ + 1])
                                       \o <<Frame(child,
                                                  Append(Top.path, Top.i))>>
                         /\ UNCHANGED <<pc, err>>
    /\ UNCHANGED <<ast, call>>

\* the range loop is over: writeNode returns nil to its caller
writeNodeReturn ==
    /\ pc = "run" /\ stack # <<>>
    /\ Top.i > Len(Top.children)
    /\ stack' = Callers
    /\ UNCHANGED <<ast, call, pc, sinks, attempts, err>>

\* MarshalRule returning writeNode's nil without writing the footer
MarshalRuleFooter_forgotten ==
    /\ pc = "run" /\ stack = <<>>
    /\ Return("nil")
    /\ UNCHANGED <<ast, call, sinks, attempts>>

\* MarshalRule after writeNode returned nil: return d.writeString("}\n")
MarshalRuleFooter ==
    /\ pc = "run" /\ stack = <<>>
    /\ \E ok \in BOOLEAN :
          /\ writeString(Footer, ok)
          /\ Return(IF ok THEN "nil" ELSE "write")
    /\ UNCHANGED <<ast, call>>

\* NewMarshaler(w) with a fresh sink, for a second MarshalRule of the same rule
NewMarshaler ==
    /\ pc = "done" /\ call = 1
    /\ call' = 2
    /\ pc' = "idle"
    /\ UNCHANGED <<ast, stack, sinks, attempts, err>>

Init ==
    /\ ast \in Rules
    /\ call = 1
    /\ pc = "idle"
    /\ stack = <<>>
    /\ sinks = [c \in 1..2 |-> <<>>]
    /\ attempts = [c \in 1..2 |-> 0]
    /\ err = [c \in 1..2 |-> "pending"]

Next ==
    \/ MarshalRule
    \/ writeNode
    \/ writeEdge
    \/ writeNodeReturn
    \/ MarshalRuleFooter

Spec == Init /\ [][Next]_vars

\* the same rule marshalled twice, each time into a sink of its own
RulesTwice == {MkRule(n, sh, m) : n \in {1, 2}, sh \in Shapes, m \in {0, 1}}

InitTwice == Init /\ ast \in RulesTwice

NextTwice == Next \/ NewMarshaler

SpecTwice == InitTwice /\ [][NextTwice]_vars

(***************************************************************************)
(* writeNode and MarshalRule as functions: the writes they make, in order, *)
(* on a sink that accepts every write, and the error they return.          *)
(***************************************************************************)
RECURSIVE Render(_, _)
RECURSIVE RenderChildren(_, _, _, _)

\* writeNode(n)
Render(n, path) ==
    LET r == getID(n) IN
      IF r.err # "nil" THEN [out |-> <<>>, err |-> r.err]
      ELSE LET ch == getChildren(n)
               decl == <<Decl(n, r.id, path)>>
           IN IF ch.err # "nil" THEN [out |-> decl, err |-> ch.err]
              ELSE LET loop == RenderChildren(n, path, ch.children,
                                              Len(ch.children))
                   IN [out |-> decl \o loop.out, err |-> loop.err]

\* the first k turns of the range loop of writeNode(n)
RenderChildren(n, path, children, k) ==
    IF k = 0 THEN [out |-> <<>>, err |-> "nil"]
    ELSE LET before == RenderChildren(n, path, children, k - 1)
             p == getID(n)
             c == getID(children[k])
         IN IF before.err # "nil" THEN before
            ELSE IF p.err # "nil"
            THEN [out |-> before.out, err |-> p.err]
            ELSE IF c.err # "nil"
            THEN [out |-> before.out, err |-> c.err]
            ELSE LET sub == Render(children[k], Append(path, k))
                 IN [out |-> before.out
                               \o <<Edge(p.id, c.id, Append(path, k))>>
                               \o sub.out,
                     err |-> sub.err]

\* MarshalRule(r)
MarshalRuleWrites(r) ==
    LET body == Render(r.BooleanExpression, <<>>) IN
      [out |-> <<Header>> \o body.out
                 \o (IF body.err = "nil" THEN <<Footer>> ELSE <<>>),
       err |-> body.err]

(***************************************************************************)
(* Vocabulary of the properties.                                           *)
(***************************************************************************)
Calls == 1..2

Returned(c) == err[c] # "pending"

\* the sink of call c accepted every write made so far
Accepting(c) == attempts[c] = Len(sinks[c])

DeclsOf(c) == {i \in DOMAIN sinks[c] : sinks[c][i].t = "node"}

EdgesOf(c) == {i \in DOMAIN sinks[c] : sinks[c][i].t = "edge"}

Front(q) == SubSeq(q, 1, Len(q) - 1)

IsPrefix(p, q) == Len(p) <= Len(q) /\ SubSeq(q, 1, Len(p)) = p

\* the tree node at a path of child indices below the BooleanExpression
RECURSIVE NodeFrom(_, _)
NodeFrom(n, path) ==
    IF path = <<>> THEN n
    ELSE NodeFrom(getChildren(n).children[Head(path)], Tail(path))

NodeAt(path) == NodeFrom(ast.BooleanExpression, path)

IsEmptyPrimary(n) ==
    /\ n.kind = "Primary"
    /\ n.Ident = Nil /\ n.Number = Nil /\ n.String = Nil
    /\ n.SubExpression = Nil

\* The child-enumeration table of the specification: the children of a
\* node, in order.  An original node is listed with its variant-kind name
\* as label; a synthetic node is listed with kind "node", and its label
\* where the table fixes one ("*" where it is the Array's joined list).
Orig(x) == [kind |-> x.kind, label |-> x.kind, node |-> x]

Synth(label) == [kind |-> "node", label |-> label, node |-> Nil]

TableChildren(n) ==
    CASE n.kind = "BooleanExpression" -> <<Orig(n.Expression)>>
      [] n.kind = "Expression" ->
           <<Orig(n.Comparison)>>
             \o (IF n.Op = Nil THEN <<>> ELSE <<Synth("Op\\n" \o n.Op.val)>>)
             \o (IF n.Next = Nil THEN <<>> ELSE <<Orig(n.Next)>>)
      [] n.kind = "Comparison" ->
           <<Orig(n.BitOperation)>>
             \o (IF n.ArrayComparison = Nil THEN <<>>
                 ELSE <<Orig(n.ArrayComparison)>>)
             \o (IF n.ScalarComparison = Nil THEN <<>>
                 ELSE <<Orig(n.ScalarComparison)>>)
      [] n.kind = "ArrayComparison" ->
           <<Synth("Op\\n" \o n.Op.val), Orig(n.Array)>>
      [] n.kind = "ScalarComparison" ->
           <<Synth("Op\\n" \o n.Op.val), Orig(n.Next)>>
      [] n.kind = "Array" -> <<Synth("*")>>
      [] n.kind = "BitOperation" ->
           <<Orig(n.Unary)>>
             \o (IF n.Op = Nil THEN <<>> ELSE <<Synth("Op\\n" \o n.Op.val)>>)
             \o (IF n.Next = Nil THEN <<>> ELSE <<Orig(n.Next)>>)
      [] n.kind = "Unary" ->
           (IF n.Op = Nil THEN <<>> ELSE <<Synth("Op\\n" \o n.Op.val)>>)
             \o (IF n.Unary = Nil THEN <<>> ELSE <<Orig(n.Unary)>>)
             \o (IF n.Primary = Nil THEN <<>> ELSE <<Orig(n.Primary)>>)
      [] n.kind = "Primary" ->
           IF n.Ident # Nil THEN <<Synth("Ident\\n" \o n.Ident.val)>>
           ELSE IF n.Number # Nil
           THEN <<Synth("Number\\n" \o ToString(n.Number.val))>>
           ELSE IF n.String # Nil THEN <<Synth("String\\n" \o n.String.val)>>
           ELSE IF n.SubExpression # Nil THEN <<Orig(n.SubExpression)>>
           ELSE <<>>
      [] OTHER -> <<>>

RECURSIVE SumSeq(_)
SumSeq(q) == IF q = <<>> THEN 0 ELSE Head(q) + SumSeq(Tail(q))

\* number of nodes, original and synthetic, reachable from n by the table
RECURSIVE CountNodes(_)
CountNodes(e) ==
    IF e.kind = "node" THEN 1
    ELSE LET t == TableChildren(e.node) IN
           1 + SumSeq([i \in 1..Len(t) |-> CountNodes(t[i])])

\* the (variant-kind, offset) pairs of the original nodes below n, n included
RECURSIVE Positions(_)
Positions(n) ==
    LET t == SelectSeq(TableChildren(n), LAMBDA e : e.kind # "node") IN
      LET RECURSIVE Cat(_)
          Cat(i) == IF i > Len(t) THEN <<>>
                    ELSE Positions(t[i].node) \o Cat(i + 1)
      IN <<<<n.kind, n.Offset>>>> \o Cat(1)

\* (variant-kind, offset) is unique among the position-carrying nodes
UniquePositions ==
    LET ps == Positions(ast.BooleanExpression) IN
      Cardinality({ps[i] : i \in DOMAIN ps}) = Len(ps)

\* no Primary of the rule is empty
RECURSIVE NoEmptyPrimary(_)
NoEmptyPrimary(n) ==
    /\ ~IsEmptyPrimary(n)
    /\ LET t == TableChildren(n) IN
         \A i \in 1..Len(t) : t[i].kind # "node" => NoEmptyPrimary(t[i].node)

WellFormed == NoEmptyPrimary(ast.BooleanExpression)

CountText(c, text) == Cardinality({i \in DOMAIN sinks[c] : sinks[c][i].s = text})

(***************************************************************************)
(* C1: for a well-formed rule and a sink that accepts every write,         *)
(* MarshalRule returns nil, the first line written is `digraph {`, the     *)
(* last is `}`, and each of the two is written exactly once.               *)
(***************************************************************************)
C1_HeaderFooter ==
    \A c \in Calls :
       (Returned(c) /\ WellFormed /\ Accepting(c)) =>
          /\ err[c] = "nil"
          /\ Len(sinks[c]) >= 2
          /\ sinks[c][1].s = "digraph {\n"
          /\ sinks[c][Len(sinks[c])].s = "}\n"
          /\ CountText(c, "digraph {\n") = 1
          /\ CountText(c, "}\n") = 1

C1_Witness ==
    /\ Returned(1) /\ WellFormed /\ Accepting(1)
    /\ ast.BooleanExpression.Expression.Next # Nil
    /\ Len(sinks[1]) > 20


\* the labels of the node declarations in the sink of call c, in order
DeclLabels(c) ==
    LET ds == SelectSeq(sinks[c], LAMBDA w : w.t = "node") IN
      [i \in 1..Len(ds) |-> ds[i].label]

\* the rule `a == 1`, with the positions the lexer gives or with none
IsEqRule == ast \in {MkRule(1, EqShape, m) : m \in {0, 1}}

(***************************************************************************)
(* C2 as stated: for the rule `a == 1`, MarshalRule writes exactly 11 node *)
(* declarations and 10 edges.                                              *)
(***************************************************************************)
C2_AsStated ==
    \A c \in Calls :
       (Returned(c) /\ IsEqRule /\ Accepting(c)) =>
          /\ err[c] = "nil"
          /\ Cardinality(DeclsOf(c)) = 11
          /\ Cardinality(EdgesOf(c)) = 10

(***************************************************************************)
(* C2 amended: for the rule `a == 1`, MarshalRule writes exactly 13 node   *)
(* declarations and 12 edges: the 11 nodes the claim lists and, between    *)
(* each Unary and its synthetic leaf, the Primary node.                    *)
(***************************************************************************)
C2_EqRuleOutput ==
    \A c \in Calls :
       (Returned(c) /\ IsEqRule /\ Accepting(c)) =>
          /\ err[c] = "nil"
          /\ Cardinality(EdgesOf(c)) = 12
          /\ DeclLabels(c) =
               <<"BooleanExpression", "Expression", "Comparison",
                 "BitOperation", "Unary", "Primary", "Ident\\na",
                 "ScalarComparison", "Op\\n==", "BitOperation", "Unary",
                 "Primary", "Number\\n1">>

C2_Witness ==
    /\ Returned(1) /\ IsEqRule /\ Accepting(1)
    /\ ast.BooleanExpression.Expression.Comparison.ScalarComparison.Offset = 12

\* the identifiers declared in the sink of call c are pairwise distinct
DistinctDeclIDs(c) ==
    \A i, j \in DeclsOf(c) : i # j => sinks[c][i].id # sinks[c][j].id

(***************************************************************************)
(* C3: for a rule whose (variant-kind, offset) pairs are unique, a         *)
(* successful MarshalRule writes exactly one node declaration per node     *)
(* reachable from the BooleanExpression through the child-enumeration      *)
(* table and no identifier is declared twice; so two operator nodes with   *)
(* the same symbol built from different instances get different            *)
(* identifiers.                                                            *)
(***************************************************************************)
C3_OneDeclPerNode ==
    \A c \in Calls :
       (err[c] = "nil" /\ UniquePositions) =>
          /\ Cardinality(DeclsOf(c)) = CountNodes(Orig(ast.BooleanExpression))
          /\ DistinctDeclIDs(c)

\* a successful call on a rule with two `==` operators
C3_Witness ==
    /\ err[1] = "nil" /\ UniquePositions
    /\ \E i, j \in DeclsOf(1) :
          /\ i # j
          /\ sinks[1][i].label = "Op\\n=="
          /\ sinks[1][j].label = "Op\\n=="

\* the target identifiers of the edges in the sink of call c, with multiplicity
EdgesTo(c, id) == {i \in EdgesOf(c) : sinks[c][i].to = id}

RootID == "BooleanExpression" \o ToString(ast.BooleanExpression.Offset)

\* edges are one fewer than declarations, the root is no edge's target and
\* no Rule node is declared
TreeShape(c) ==
    /\ Cardinality(EdgesOf(c)) = Cardinality(DeclsOf(c)) - 1
    /\ sinks[c][2].t = "node" /\ sinks[c][2].id = RootID
    /\ EdgesTo(c, RootID) = {}
    /\ \A i \in DeclsOf(c) : sinks[c][i].label # "Rule"

\* every declared identifier but the root is the target of exactly one edge
OneParent(c) ==
    \A i \in DeclsOf(c) :
       sinks[c][i].id # RootID =>
          Cardinality(EdgesTo(c, sinks[c][i].id)) = 1

(***************************************************************************)
(* C4 as stated: after any successful MarshalRule the edges are one fewer  *)
(* than the node declarations and the output is a tree rooted at the       *)
(* BooleanExpression: every declared identifier but the root is the target *)
(* of exactly one edge, the root of none, and the Rule is never declared.  *)
(***************************************************************************)
C4_AsStated ==
    \A c \in Calls : err[c] = "nil" => TreeShape(c) /\ OneParent(c)

(***************************************************************************)
(* C4 amended: after any successful MarshalRule the edges are one fewer    *)
(* than the node declarations, the root BooleanExpression is the target of *)
(* no edge and the Rule is never declared; and when the rule's             *)
(* (variant-kind, offset) pairs are unique, every declared identifier but  *)
(* the root is the target of exactly one edge.                             *)
(***************************************************************************)
C4_Tree ==
    \A c \in Calls :
       err[c] = "nil" =>
          /\ TreeShape(c)
          /\ UniquePositions => OneParent(c)

C4_Witness ==
    /\ err[1] = "nil" /\ UniquePositions
    /\ Cardinality(EdgesOf(1)) > 20

\* getChildren was called on an empty Primary during call c: the Primary's
\* declaration is in the sink
ReachedEmptyPrimary(c) ==
    \E i \in DeclsOf(c) : IsEmptyPrimary(NodeAt(sinks[c][i].path))

(***************************************************************************)
(* C5: once the traversal has come to an empty Primary (getChildren is     *)
(* called on it), MarshalRule returns the empty-primary error, wherever    *)
(* the Primary is in the tree and whatever was written before it; what was *)
(* written before it is still in the sink, in order.                       *)
(***************************************************************************)
C5_EmptyPrimary ==
    \A c \in Calls :
       (Returned(c) /\ ReachedEmptyPrimary(c)) =>
          /\ err[c] = "empty"
          /\ sinks[c] = MarshalRuleWrites(ast).out
          /\ IsEmptyPrimary(NodeAt(sinks[c][Len(sinks[c])].path))

\* the empty Primary is met after a whole sibling subtree was written
C5_Witness ==
    /\ err[1] = "empty"
    /\ ast.BooleanExpression.Expression.Next # Nil
    /\ Len(sinks[1]) > 20

(***************************************************************************)
(* C6: when a write to the sink fails, MarshalRule stops at once: the      *)
(* failing write is the last one it attempts, it returns the write error,  *)
(* and the sink holds exactly the writes before the failing one, in the    *)
(* order an accepting sink would have received them.                       *)
(***************************************************************************)
C6_WriteFailure ==
    \A c \in Calls :
       /\ attempts[c] - Len(sinks[c]) \in {0, 1}
       /\ attempts[c] > Len(sinks[c]) =>
             /\ err[c] = "write"
             /\ c = call => pc = "done"
       /\ err[c] = "write" =>
             /\ Len(sinks[c]) = attempts[c] - 1
             /\ attempts[c] <= Len(MarshalRuleWrites(ast).out)
             /\ sinks[c] = SubSeq(MarshalRuleWrites(ast).out, 1,
                                  attempts[c] - 1)

\* the write of a node declaration, deep in the tree, failed
C6_Witness ==
    /\ err[1] = "write"
    /\ Len(sinks[1]) > 10
    /\ sinks[1][Len(sinks[1])].t = "edge"

\* the decimal forms of a list of integers
Decimals(nums) == [i \in 1..Len(nums) |-> ToString(nums[i])]

\* the declarations and edges below the Array at path p in the sink of call c
ArrayChildEdges(c, p) ==
    {i \in EdgesOf(c) : Front(sinks[c][i].path) = p}

\* the Array declared at position i of the sink has one child, declared
\* right after its edge with the given label
ArrayChild(c, i, label) ==
    LET p == sinks[c][i].path IN
      /\ \A e \in ArrayChildEdges(c, p) : e = i + 1
      /\ i + 1 <= Len(sinks[c]) => sinks[c][i + 1].t = "edge"
      /\ i + 2 <= Len(sinks[c]) =>
            /\ sinks[c][i + 2].t = "node"
            /\ sinks[c][i + 2].path = Append(p, 1)
            /\ NodeAt(Append(p, 1)).kind = "node"
            /\ sinks[c][i + 2].label = label
            /\ sinks[c][i + 2].s =
                  sinks[c][i + 1].to \o "[label=\"" \o label \o "\"]\n"

ArrayDecls(c) == {i \in DeclsOf(c) : NodeAt(sinks[c][i].path).kind = "Array"}

(***************************************************************************)
(* C7 as stated: an Array has exactly one child, a synthetic node labelled *)
(* with its strings joined by `,` or, when it holds integers instead, with *)
(* their decimal forms joined by `,`.                                      *)
(***************************************************************************)
C7_AsStated ==
    \A c \in Calls : \A i \in ArrayDecls(c) :
       LET n == NodeAt(sinks[c][i].path) IN
         ArrayChild(c, i, IF Len(n.Strings) > 0 THEN Join(n.Strings, ",")
                          ELSE Join(Decimals(n.Numbers), ","))

(***************************************************************************)
(* C7 amended: an Array has exactly one child, a synthetic node labelled   *)
(* with its strings joined by `,` (x, y give `x,y`) or, when it holds no   *)
(* string, with the decimal forms of its integers joined by a comma and a  *)
(* space (1, 2 give `1, 2`); never a mix of both.                          *)
(***************************************************************************)
C7_ArrayLabel ==
    \A c \in Calls : \A i \in ArrayDecls(c) :
       LET n == NodeAt(sinks[c][i].path) IN
         ArrayChild(c, i, IF Len(n.Strings) > 0 THEN Join(n.Strings, ",")
                          ELSE Join(Decimals(n.Numbers), ", "))

\* an Array of two integers and no string has been written with its child
C7_Witness ==
    \E i \in ArrayDecls(1) :
       /\ NodeAt(sinks[1][i].path).Strings = <<>>
       /\ NodeAt(sinks[1][i].path).Numbers = <<1, 2>>
       /\ i + 2 <= Len(sinks[1])
       /\ sinks[1][i + 2].label = "1, 2"

(***************************************************************************)
(* C8: marshalling the same rule twice into two sinks writes the same      *)
(* thing twice: as far as both sinks go they hold the same writes, and     *)
(* when both accepted every write the two outputs and results are equal.   *)
(***************************************************************************)
C8_Idempotent ==
    /\ \A i \in DOMAIN sinks[1] \cap DOMAIN sinks[2] :
          sinks[1][i] = sinks[2][i]
    /\ (Returned(1) /\ Returned(2) /\ Accepting(1) /\ Accepting(2)) =>
          /\ sinks[1] = sinks[2]
          /\ err[1] = err[2]

\* both calls have succeeded on a rule with operator and leaf nodes
C8_Witness ==
    /\ err[1] = "nil" /\ err[2] = "nil"
    /\ Len(sinks[2]) > 20

\* the edge at position i of the sink of call c, from the node at path p to
\* its k-th child, is where depth-first pre-order puts it
EdgeInOrder(c, i) ==
    LET w == sinks[c][i]
        p == Front(w.path)
        k == w.path[Len(w.path)]
        tc == TableChildren(NodeAt(p))
    IN  \* the parent was declared before, under the identifier the edge names
        /\ \E j \in 1..(i - 1) :
              /\ sinks[c][j].t = "node"
              /\ sinks[c][j].path = p
              /\ sinks[c][j].id = w.id
        \* the child's declaration follows at once
        /\ i + 1 <= Len(sinks[c]) =>
              /\ sinks[c][i + 1].t = "node"
              /\ sinks[c][i + 1].path = w.path
              /\ sinks[c][i + 1].id = w.to
        \* the child is the k-th entry of the child-enumeration table
        /\ k <= Len(tc)
        /\ tc[k].kind = NodeAt(w.path).kind
        /\ (i + 1 <= Len(sinks[c]) /\ tc[k].label # "*") =>
              sinks[c][i + 1].label = tc[k].label
        \* the first edge follows the parent's declaration at once
        /\ k = 1 => sinks[c][i - 1].t = "node" /\ sinks[c][i - 1].path = p
        \* a later edge follows the previous child's whole subtree
        /\ k > 1 =>
              \E j \in 1..(i - 1) :
                 /\ sinks[c][j].t = "edge"
                 /\ sinks[c][j].path = Append(p, k - 1)
                 /\ \A x \in (j + 1)..(i - 1) :
                       IsPrefix(Append(p, k - 1), sinks[c][x].path)
                 /\ Cardinality({x \in (j + 1)..(i - 1) :
                                    sinks[c][x].t = "node"})
                      = CountNodes(tc[k - 1])

(***************************************************************************)
(* C9: the writes of a MarshalRule call are in depth-first pre-order: a    *)
(* node is declared before any edge leaving it; an edge P -> C is followed *)
(* at once by the declaration of C and then by the whole subtree of C      *)
(* before the next edge leaving P; and the edges leaving a node are in the *)
(* order of the child-enumeration table.                                   *)
(***************************************************************************)
C9_PreOrder ==
    \A c \in Calls : \A i \in DOMAIN sinks[c] :
       LET w == sinks[c][i] IN
         /\ (w.t = "header") <=> (i = 1)
         /\ w.t = "node" =>
               IF w.path = <<>> THEN i = 2
               ELSE /\ sinks[c][i - 1].t = "edge"
                    /\ sinks[c][i - 1].path = w.path
         /\ w.t = "edge" => EdgeInOrder(c, i)
         /\ (w.t = "node" /\ err[c] = "nil" /\ NodeAt(w.path).kind # "node") =>
               \A k \in 1..Len(TableChildren(NodeAt(w.path))) :
                  \E j \in EdgesOf(c) : sinks[c][j].path = Append(w.path, k)

\* an Expression with a connector and a next Expression, and a Unary with an
\* operator and a nested Unary, have been written out in full
C9_Witness ==
    /\ err[1] = "nil"
    /\ ast.BooleanExpression.Expression.Next # Nil
    /\ \E i \in EdgesOf(1) :
          /\ NodeAt(Front(sinks[1][i].path)).kind = "Unary"
          /\ sinks[1][i].path[Len(sinks[1][i].path)] = 2

(***************************************************************************)
(* C10: when MarshalRule fails on an empty Primary, the last two lines in  *)
(* the sink are the edge from the parent Unary to that Primary and the     *)
(* Primary's declaration `Primary<offset>[label="Primary"]`; no edge       *)
(* leaves the Primary, nothing is written after it and the footer is never *)
(* written.                                                                *)
(***************************************************************************)
C10_EmptyPrimaryTail ==
    \A c \in Calls :
       err[c] = "empty" =>
          LET n == Len(sinks[c])
              last == sinks[c][n]
              prim == NodeAt(last.path)
              parent == NodeAt(Front(last.path))
          IN /\ Accepting(c)
             /\ n >= 3
             /\ IsEmptyPrimary(prim)
             /\ last.s = "Primary" \o ToString(prim.Offset)
                            \o "[label=\"Primary\"]\n"
             /\ parent.kind = "Unary"
             /\ sinks[c][n - 1].path = last.path
             /\ sinks[c][n - 1].s =
                   "Unary" \o ToString(parent.Offset) \o " -> Primary"
                      \o ToString(prim.Offset) \o "\n"
             /\ \A i \in EdgesOf(c) : Front(sinks[c][i].path) # last.path
             /\ CountText(c, "}\n") = 0

\* the empty Primary is the right-hand side of a comparison
C10_Witness ==
    /\ err[1] = "empty"
    /\ Len(sinks[1]) > 10
    /\ NodeAt(<<1, 1>>).ScalarComparison # Nil
    /\ ~IsEmptyPrimary(NodeAt(<<1, 1, 1, 1, 1>>))

====
